---------------------------- MODULE Spec2Model ----------------------------
(***************************************************************************)
(* Model of kivy/input/providers/leaphand.py: the module-level frame queue *)
(* _LEAP_QUEUE, the producer callback LeapMotionListener.on_frame, and the *)
(* consumer LeapHandEventProvider.update / process_frame, together with    *)
(* LeapHandEvent.depack and normalize.                                     *)
(*                                                                         *)
(* The producer (the Leap listener thread) and the consumer (the thread    *)
(* that calls update) interleave at the points where the consumer touches  *)
(* the shared deque: deque.append and deque.popleft are each atomic.       *)
(* process_frame reads and writes only the provider's own touches mapping  *)
(* and the popped frame, so it is one step.  dispatch_fn is called once    *)
(* per event; each call is one step.                                       *)
(*                                                                         *)
(* The name `position` read at line 115 is a free name (its assignment is  *)
(* commented out at line 114).  The model takes the value that name yields *)
(* when a hand is handled as the hand's reported position: it is carried   *)
(* in the frame as hand.pos and drawn from a set of positions.             *)
(***************************************************************************)
EXTENDS Integers, Sequences, FiniteSets, TLC

(***************************************************************************)
(* Bounds of the model.                                                    *)
(***************************************************************************)
MaxFrames == 3          \* frames pushed by the producer in one behaviour

Ids == {1, 2}           \* hand ids the device reports
Providers == {"p1", "p2"}   \* started LeapHandEventProvider instances

\* raw positions (x, y, z) a hand can be reported at
Positions == {<<0, 250, 0>>}
CalIds == {1}
CalPositions ==
    {<<0, 250, 0>>, <<-150, 40, -350>>, <<150, 460, 350>>, <<150, 250, 0>>,
     <<-30, 145, 70>>}

VARIABLES
    LEAP_QUEUE,   \* the module-level deque of frames (line 39)
    pushed,       \* number of frames appended so far; identifies a frame object
    touches,      \* touches[p]: the dict self.touches of provider p, as the
                  \* sequence of its values in insertion order
    pc,           \* where the consumer is inside update()
    self,         \* the provider whose update() is running (or ran last)
    frame,        \* update()'s local `frame`
    events,       \* the events of `frame` not yet passed to dispatch_fn
    delivered,    \* history: frames passed to process_frame, in order, each
                  \* with the provider and the events process_frame returned
    dispatched,   \* history: events passed to dispatch_fn, in order
    startq,       \* history: frames queued when the running update() started
    handled,      \* history: frames popped by the running update()
    self_uid,     \* self_uid[p]: the field self.uid of provider p (line 92)
    exc           \* history: the exception process_frame or dispatch_fn
                  \* raised in the running (or last) update(), if any

vars == <<LEAP_QUEUE, pushed, touches, pc, self, frame, events,
          delivered, dispatched, startq, handled, self_uid, exc>>

-----------------------------------------------------------------------------
(***************************************************************************)
(* normalize and LeapHandEvent.depack.  Python computes                    *)
(* (value - a) / float(b - a); the quotient is kept as the pair            *)
(* numerator / denominator and compared by cross-multiplication.           *)
(***************************************************************************)
Rat(n, d) == [num |-> n, den |-> d]

RatEq(r, n, d) == r.den # 0 /\ d # 0 /\ r.num * d = n * r.den

normalize(value, a, b) == Rat(value - a, b - a)

\* variant of depack: the y axis is scaled from 0 instead of from 40
depack_y0(touch, args) ==
    [touch EXCEPT !.sx = normalize(args[1], -150, 150),
                  !.sy = normalize(args[2], 0, 460),
                  !.sz = normalize(args[3], -350, 350),
                  !.z = args[3]]

\* the fields depack sets on a touch from args = (x, y, z)
depack(touch, args) ==
    [touch EXCEPT !.sx = normalize(args[1], -150, 150),
                  !.sy = normalize(args[2], 40, 460),
                  !.sz = normalize(args[3], -350, 350),
                  !.z = args[3]]

\* LeapHandEvent(self.device, uid, args): MotionEvent.__init__ stores the id
\* and calls depack(args).  obj is the identity of the object; new gives it
LeapHandEvent(uid, args) ==
    depack([id |-> uid, sx |-> Rat(0, 1), sy |-> Rat(0, 1), sz |-> Rat(0, 1),
            z |-> 0, obj |-> 0], args)

\* touch.move(args): MotionEvent.move re-runs depack on the same object
move(touch, args) == depack(touch, args)

-----------------------------------------------------------------------------
(***************************************************************************)
(* Frames.  frame.hands is a sequence of hands, each with an id and the    *)
(* position read for it; a frame lists an id at most once.                 *)
(***************************************************************************)
Range(s) == {s[i] : i \in 1..Len(s)}

HandLists(ids, poss) ==
    LET Hand == [id : ids, pos : poss]
        All == UNION {[1..n -> Hand] : n \in 0..Cardinality(ids)}
    IN  {h \in All : \A i, j \in 1..Len(h) : i # j => h[i].id # h[j].id}

uids(hands) == [i \in 1..Len(hands) |-> hands[i].id]

NoFrame == [fid |-> 0, hands |-> <<>>]

-----------------------------------------------------------------------------
(***************************************************************************)
(* The touches dict: values in insertion order, keyed by touch.id.         *)
(***************************************************************************)
\* variant of keys: the keys in ascending order
keys_sorted(tch) ==
    LET S == {tch[i].id : i \in 1..Len(tch)}
    IN  CHOOSE q \in [1..Cardinality(S) -> S] :
            \A j, k \in 1..Cardinality(S) : j < k => q[j] < q[k]

\* touches.keys(): a dict iterates in insertion order
keys(tch) == [i \in 1..Len(tch) |-> tch[i].id]

KeySet(tch) == Range(keys(tch))

IndexOf(tch, uid) == CHOOSE i \in 1..Len(tch) : tch[i].id = uid

RemoveAt(s, i) == SubSeq(s, 1, i - 1) \o SubSeq(s, i + 1, Len(s))

Event(kind, touch) == [kind |-> kind, touch |-> touch]

\* the identity of a newly constructed touch: one that no touch the provider
\* or the event list still refers to has (an identity is free again once
\* its object is unreferenced)
new(tch, evs, touch) ==
    LET used == {tch[i].obj : i \in 1..Len(tch)}
                    \cup {evs[i].touch.obj : i \in 1..Len(evs)}
        free == CHOOSE n \in 1..(Cardinality(used) + 1) :
                    /\ n \notin used
                    /\ \A m \in 1..(n - 1) : m \in used
    IN  [touch EXCEPT !.obj = free]

\* variant of hands_loop: a reported hand always starts a new touch
RECURSIVE hands_loop_begin(_, _, _, _)
hands_loop_begin(hands, tch, evs, available_uid) ==
    IF hands = <<>>
    THEN [touches |-> tch, events |-> evs, available_uid |-> available_uid]
    ELSE LET hand == Head(hands)
             uid == hand.id
             touch == new(tch, evs, LeapHandEvent(uid, hand.pos))
             rest == SelectSeq(tch, LAMBDA t : t.id # uid)
         IN  hands_loop_begin(Tail(hands), Append(rest, touch),
                              Append(evs, Event("begin", touch)),
                              Append(available_uid, uid))

\* variant of hands_loop: a hand reported again gets a new touch object
RECURSIVE hands_loop_replace(_, _, _, _)
hands_loop_replace(hands, tch, evs, available_uid) ==
    IF hands = <<>>
    THEN [touches |-> tch, events |-> evs, available_uid |-> available_uid]
    ELSE LET hand == Head(hands)
             uid == hand.id
             args == hand.pos
             touch == new(tch, evs, LeapHandEvent(uid, args))
         IN  IF uid \notin KeySet(tch)
             THEN hands_loop_replace(Tail(hands), Append(tch, touch),
                                     Append(evs, Event("begin", touch)),
                                     Append(available_uid, uid))
             ELSE hands_loop_replace(Tail(hands),
                                     [tch EXCEPT ![IndexOf(tch, uid)] = touch],
                                     Append(evs, Event("update", touch)),
                                     Append(available_uid, uid))

\* lines 111-123: the loop over frame.hands
RECURSIVE hands_loop(_, _, _, _)
hands_loop(hands, tch, evs, available_uid) ==
    IF hands = <<>>
    THEN [touches |-> tch, events |-> evs, available_uid |-> available_uid]
    ELSE LET hand == Head(hands)
             uid == hand.id
             args == hand.pos
         IN  IF uid \notin KeySet(tch)
             THEN LET touch == new(tch, evs, LeapHandEvent(uid, args))
                  IN  hands_loop(Tail(hands), Append(tch, touch),
                                 Append(evs, Event("begin", touch)),
                                 Append(available_uid, uid))
             ELSE LET i == IndexOf(tch, uid)
                      touch == move(tch[i], args)
                  IN  hands_loop(Tail(hands), [tch EXCEPT ![i] = touch],
                                 Append(evs, Event("update", touch)),
                                 Append(available_uid, uid))

\* variant of keys_loop: the `del touches[key]` is missing
RECURSIVE keys_loop_keep(_, _, _, _)
keys_loop_keep(ks, tch, evs, available_uid) ==
    IF ks = <<>>
    THEN [touches |-> tch, events |-> evs]
    ELSE LET key == Head(ks)
         IN  IF key \notin Range(available_uid)
             THEN keys_loop_keep(Tail(ks), tch,
                                 Append(evs, Event("end", tch[IndexOf(tch, key)])),
                                 available_uid)
             ELSE keys_loop_keep(Tail(ks), tch, evs, available_uid)

\* lines 124-127: the loop over a copy of the keys
RECURSIVE keys_loop(_, _, _, _)
keys_loop(ks, tch, evs, available_uid) ==
    IF ks = <<>>
    THEN [touches |-> tch, events |-> evs]
    ELSE LET key == Head(ks)
         IN  IF key \notin Range(available_uid)
             THEN LET i == IndexOf(tch, key)
                  IN  keys_loop(Tail(ks), RemoveAt(tch, i),
                                Append(evs, Event("end", tch[i])),
                                available_uid)
             ELSE keys_loop(Tail(ks), tch, evs, available_uid)

\* variant of process_frame: the vanished ids are ended before the reported
\* hands are handled
process_frame_ends_first(tch, fr) ==
    LET k == keys_loop(keys(tch), tch, <<>>, uids(fr.hands))
        h == hands_loop(fr.hands, k.touches, k.events, <<>>)
    IN  [touches |-> h.touches, events |-> h.events]

\* process_frame(frame) on a touches dict: the dict afterwards and the events
process_frame(tch, fr) ==
    LET h == hands_loop(fr.hands, tch, <<>>, <<>>)
    IN  keys_loop(keys(h.touches), h.touches, h.events, h.available_uid)

-----------------------------------------------------------------------------
Init ==
    /\ LEAP_QUEUE = <<>>
    /\ pushed = 0
    /\ touches = [p \in Providers |-> <<>>]
    /\ pc = "idle"
    /\ self = CHOOSE p \in Providers : TRUE
    /\ frame = NoFrame
    /\ events = <<>>
    /\ delivered = <<>>
    /\ dispatched = <<>>
    /\ startq = <<>>
    /\ handled = <<>>
    /\ self_uid = [p \in Providers |-> 0]
    /\ exc = "none"

\* variant of on_frame: the frame is put at the head of the deque
on_frame_left(hands) ==
    /\ pushed' = pushed + 1
    /\ LEAP_QUEUE' = <<[fid |-> pushed + 1, hands |-> hands]>> \o LEAP_QUEUE
    /\ UNCHANGED <<touches, pc, self, frame, events, delivered, dispatched,
                   startq, handled,
                   self_uid, exc>>

\* variant of on_frame: the append waits while an update() call is running
on_frame_locked(hands) ==
    /\ pc = "idle"
    /\ pushed' = pushed + 1
    /\ LEAP_QUEUE' = Append(LEAP_QUEUE, [fid |-> pushed + 1, hands |-> hands])
    /\ UNCHANGED <<touches, pc, self, frame, events, delivered, dispatched,
                   startq, handled,
                   self_uid, exc>>

\* LeapMotionListener.on_frame: controller.frame() is appended to the deque
on_frame(hands) ==
    /\ pushed' = pushed + 1
    /\ LEAP_QUEUE' = Append(LEAP_QUEUE, [fid |-> pushed + 1, hands |-> hands])
    /\ UNCHANGED <<touches, pc, self, frame, events, delivered, dispatched,
                   startq, handled,
                   self_uid, exc>>

fids(q) == [i \in 1..Len(q) |-> q[i].fid]

\* a provider's update(dispatch_fn) is called, after the previous call
\* returned or let an exception out
update_call(p) ==
    /\ pc \in {"idle", "raised"}
    /\ pc' = "loop"
    /\ self' = p
    /\ startq' = fids(LEAP_QUEUE)
    /\ handled' = <<>>
    /\ exc' = "none"
    /\ UNCHANGED <<LEAP_QUEUE, pushed, touches, frame, events, delivered,
                   dispatched, self_uid>>

\* variant of popleft: the head frame is read but left in the deque
popleft_peek ==
    /\ pc = "loop"
    /\ LEAP_QUEUE # <<>>
    /\ frame' = Head(LEAP_QUEUE)
    /\ handled' = Append(handled, Head(LEAP_QUEUE).fid)
    /\ pc' = "process"
    /\ UNCHANGED <<LEAP_QUEUE, pushed, touches, self, events, delivered,
                   dispatched, startq,
                   self_uid, exc>>

\* variant of popleft: pop() takes the newest frame
popleft_newest ==
    /\ pc = "loop"
    /\ LEAP_QUEUE # <<>>
    /\ frame' = LEAP_QUEUE[Len(LEAP_QUEUE)]
    /\ LEAP_QUEUE' = SubSeq(LEAP_QUEUE, 1, Len(LEAP_QUEUE) - 1)
    /\ handled' = Append(handled, LEAP_QUEUE[Len(LEAP_QUEUE)].fid)
    /\ pc' = "process"
    /\ UNCHANGED <<pushed, touches, self, events, delivered, dispatched,
                   startq,
                   self_uid, exc>>

\* variant of popleft: the frame taken from the head is put back at the tail
popleft_requeue ==
    /\ pc = "loop"
    /\ LEAP_QUEUE # <<>>
    /\ frame' = Head(LEAP_QUEUE)
    /\ LEAP_QUEUE' = Append(Tail(LEAP_QUEUE), Head(LEAP_QUEUE))
    /\ handled' = Append(handled, Head(LEAP_QUEUE).fid)
    /\ pc' = "process"
    /\ UNCHANGED <<pushed, touches, self, events, delivered, dispatched,
                   startq, self_uid, exc>>

\* line 100 on a non-empty deque
popleft ==
    /\ pc = "loop"
    /\ LEAP_QUEUE # <<>>
    /\ frame' = Head(LEAP_QUEUE)
    /\ LEAP_QUEUE' = Tail(LEAP_QUEUE)
    /\ handled' = Append(handled, Head(LEAP_QUEUE).fid)
    /\ pc' = "process"
    /\ UNCHANGED <<pushed, touches, self, events, delivered, dispatched,
                   startq,
                   self_uid, exc>>

\* variant of popleft_empty: the call also returns once the frames that were
\* queued at its start are handled
popleft_empty_snapshot ==
    /\ pc = "loop"
    /\ \/ LEAP_QUEUE = <<>>
       \/ Len(handled) >= Len(startq)
    /\ pc' = "idle"
    /\ UNCHANGED <<LEAP_QUEUE, pushed, touches, self, frame, events,
                   delivered, dispatched, startq, handled,
                   self_uid, exc>>

\* variant of popleft_empty: an empty poll ends the provider's sessions
popleft_empty_flush ==
    /\ pc = "loop"
    /\ LEAP_QUEUE = <<>>
    /\ pc' = "idle"
    /\ touches' = [touches EXCEPT ![self] = <<>>]
    /\ UNCHANGED <<LEAP_QUEUE, pushed, self, frame, events, delivered,
                   dispatched, startq, handled,
                   self_uid, exc>>

\* line 100 on an empty deque: IndexError, caught at line 104; update returns
popleft_empty ==
    /\ pc = "loop"
    /\ LEAP_QUEUE = <<>>
    /\ pc' = "idle"
    /\ UNCHANGED <<LEAP_QUEUE, pushed, touches, self, frame, events,
                   delivered, dispatched, startq, handled,
                   self_uid, exc>>

\* variant of call_process_frame: self.uid counts the touches created
call_process_frame_count ==
    /\ pc = "process"
    /\ LET r == process_frame(touches[self], frame)
           n == Len(SelectSeq(r.events, LAMBDA e : e.kind = "begin"))
       IN  /\ touches' = [touches EXCEPT ![self] = r.touches]
           /\ events' = r.events
           /\ self_uid' = [self_uid EXCEPT ![self] = @ + n]
    /\ delivered' = Append(delivered,
                           [fid |-> frame.fid, prov |-> self,
                            hands |-> frame.hands,
                            events |-> process_frame(touches[self], frame).events])
    /\ pc' = "dispatch"
    /\ UNCHANGED <<LEAP_QUEUE, pushed, self, frame, dispatched, startq,
                   handled, exc>>

\* variant of call_process_frame: the ended touches are still in the mapping
\* while the events are dispatched
call_process_frame_lazy ==
    /\ pc = "process"
    /\ LET r == process_frame(touches[self], frame)
           h == hands_loop(frame.hands, touches[self], <<>>, <<>>)
       IN  /\ touches' = [touches EXCEPT ![self] = h.touches]
           /\ events' = r.events
    /\ delivered' = Append(delivered,
                           [fid |-> frame.fid, prov |-> self,
                            hands |-> frame.hands,
                            events |-> process_frame(touches[self], frame).events])
    /\ pc' = "dispatch"
    /\ UNCHANGED <<LEAP_QUEUE, pushed, self, frame, dispatched, startq,
                   handled, self_uid, exc>>

\* line 101
call_process_frame ==
    /\ pc = "process"
    /\ LET r == process_frame(touches[self], frame)
       IN  /\ touches' = [touches EXCEPT ![self] = r.touches]
           /\ events' = r.events
    /\ delivered' = Append(delivered,
                           [fid |-> frame.fid, prov |-> self,
                            hands |-> frame.hands,
                            events |-> process_frame(touches[self], frame).events])
    /\ pc' = "dispatch"
    /\ UNCHANGED <<LEAP_QUEUE, pushed, self, frame, dispatched, startq,
                   handled,
                   self_uid, exc>>

\* variant of dispatch: the for loop stops after its first event
dispatch_first_only ==
    /\ pc = "dispatch"
    /\ events # <<>>
    /\ dispatched' = Append(dispatched,
                            [kind |-> Head(events).kind,
                             touch |-> Head(events).touch,
                             fid |-> frame.fid, prov |-> self])
    /\ events' = <<>>
    /\ UNCHANGED <<LEAP_QUEUE, pushed, touches, pc, self, frame, delivered,
                   startq, handled,
                   self_uid, exc>>

\* lines 102-103: one iteration of the for loop
dispatch ==
    /\ pc = "dispatch"
    /\ events # <<>>
    /\ dispatched' = Append(dispatched,
                            [kind |-> Head(events).kind,
                             touch |-> Head(events).touch,
                             fid |-> frame.fid, prov |-> self])
    /\ events' = Tail(events)
    /\ UNCHANGED <<LEAP_QUEUE, pushed, touches, pc, self, frame, delivered,
                   startq, handled,
                   self_uid, exc>>

\* the for loop is exhausted: back to line 100
next_frame ==
    /\ pc = "dispatch"
    /\ events = <<>>
    /\ pc' = "loop"
    /\ UNCHANGED <<LEAP_QUEUE, pushed, touches, self, frame, events,
                   delivered, dispatched, startq, handled,
                   self_uid, exc>>

\* the exceptions process_frame or dispatch_fn may raise, by how the
\* try/except of update() tells them apart
Exceptions == {"IndexError", "Other"}

\* variant of unwind: the except clause does not match IndexError
unwind_uncaught(e) == "raised"

\* variant of unwind: a bare except swallows every exception
unwind_swallow_all(e) == "idle"

\* lines 98, 104-105: where an exception raised inside the try block leaves
\* update(): IndexError is caught and update() returns, any other exception
\* goes out to the caller
unwind(e) == IF e = "IndexError" THEN "idle" ELSE "raised"

\* line 101, process_frame raises e while it handles hand k + 1: the first k
\* hands are done, no event list is returned
process_frame_raises(e) ==
    /\ pc = "process"
    /\ \E k \in 0..(Len(frame.hands) - 1) :
           touches' = [touches EXCEPT ![self] =
                          hands_loop(SubSeq(frame.hands, 1, k), touches[self],
                                     <<>>, <<>>).touches]
    /\ delivered' = Append(delivered,
                           [fid |-> frame.fid, prov |-> self,
                            hands |-> frame.hands, events |-> <<>>])
    /\ exc' = e
    /\ pc' = unwind(e)
    /\ UNCHANGED <<LEAP_QUEUE, pushed, self, frame, events, dispatched,
                   startq, handled, self_uid>>

\* line 103, dispatch_fn raises e on the next event: the for loop is left
dispatch_fn_raises(e) ==
    /\ pc = "dispatch"
    /\ events # <<>>
    /\ events' = <<>>
    /\ exc' = e
    /\ pc' = unwind(e)
    /\ UNCHANGED <<LEAP_QUEUE, pushed, touches, self, frame, delivered,
                   dispatched, startq, handled, self_uid>>

\* the listener thread delivers a frame (at most MaxFrames in a behaviour)
Producer ==
    \E hands \in HandLists(Ids, Positions) :
        pushed < MaxFrames /\ on_frame(hands)

\* the same, with one hand at a position of the calibration volume
ProducerCal ==
    \E hands \in HandLists(CalIds, CalPositions) :
        pushed < MaxFrames /\ on_frame(hands)

Consumer ==
    \/ \E p \in Providers : update_call(p)
    \/ popleft
    \/ popleft_empty
    \/ call_process_frame
    \/ dispatch
    \/ next_frame

Next == Producer \/ Consumer

Spec == Init /\ [][Next]_vars

NextCal == ProducerCal \/ Consumer

SpecCal == Init /\ [][NextCal]_vars

\* the listener thread delivers a frame with no hand or with both hands
ProducerLive ==
    \E hands \in HandLists(Ids, Positions) :
        uids(hands) \in {<<>>, <<1, 2>>} /\ pushed < MaxFrames /\ on_frame(hands)

NextLive == ProducerLive \/ Consumer

\* the host keeps calling update(), and a running update() keeps going
FairSpec == Init /\ [][NextLive]_vars /\ WF_vars(Consumer)

Raise ==
    \/ \E e \in Exceptions : process_frame_raises(e)
    \/ \E e \in Exceptions : dispatch_fn_raises(e)

NextErr == ProducerLive \/ Consumer \/ Raise

\* update() with process_frame and dispatch_fn free to raise
SpecErr == Init /\ [][NextErr]_vars

\* frames whose hands also carry what the device reports about the pinch
\* (the Leap hand's pinch strength, as pinching or not); process_frame reads
\* hand.id and the position only
PinchHandLists ==
    LET Hand == [id : CalIds, pos : Positions, pinch : BOOLEAN]
    IN  UNION {[1..n -> Hand] : n \in 0..Cardinality(CalIds)}

ProducerPinch ==
    \E hands \in PinchHandLists : pushed < MaxFrames /\ on_frame(hands)

NextPinch == ProducerPinch \/ Consumer

SpecPinch == Init /\ [][NextPinch]_vars

-----------------------------------------------------------------------------
(***************************************************************************)
(* Properties.                                                             *)
(***************************************************************************)
Last(s) == s[Len(s)]

\* the frames provider p has reconciled, in order
DeliveredTo(p) == SelectSeq(delivered, LAMBDA d : d.prov = p)

NoDuplicates(s) == \A i, j \in 1..Len(s) : i # j => s[i] # s[j]

\* C1: once process_frame has handled a frame F for a provider, the keys of
\* that provider's touches mapping are exactly the hand ids reported in F
\* (each key once); a frame with zero hands leaves the mapping empty.
C1_KeysEqualReported ==
    \A p \in Providers :
        DeliveredTo(p) # <<>> =>
            LET F == Last(DeliveredTo(p))
            IN  /\ KeySet(touches[p]) = Range(uids(F.hands))
                /\ NoDuplicates(keys(touches[p]))
                /\ F.hands = <<>> => touches[p] = <<>>

\* a provider with two active sessions has reconciled a frame with zero hands
C1_Witness ==
    \E p \in Providers :
        /\ Len(DeliveredTo(p)) >= 2
        /\ Len(DeliveredTo(p)[Len(DeliveredTo(p)) - 1].hands) = 2
        /\ Last(DeliveredTo(p)).hands = <<>>
        /\ touches[p] = <<>>

\* the events provider p has emitted for id i, in order: those already
\* dispatched, then those process_frame returned that wait for dispatch
EmittedKinds(p, i) ==
    LET done == SelectSeq(dispatched, LAMBDA e : e.prov = p /\ e.touch.id = i)
        wait == IF self = p
                THEN SelectSeq(events, LAMBDA e : e.touch.id = i)
                ELSE <<>>
    IN  [k \in 1..Len(done) |-> done[k].kind]
            \o [k \in 1..Len(wait) |-> wait[k].kind]

Lifecycle(ks) ==
    \A k \in 1..Len(ks) :
        /\ ks[k] = "begin" => (k = 1 \/ ks[k - 1] = "end")
        /\ ks[k] \in {"update", "end"} =>
               (k > 1 /\ ks[k - 1] \in {"begin", "update"})

\* C2: for every provider and id, the events emitted for the id repeat
\* Begin, zero or more Update, End: no Update or End without an open Begin,
\* no second Begin before the End; the id is in the mapping exactly while
\* its last event is a Begin or an Update.
C2_Lifecycle ==
    \A p \in Providers : \A i \in Ids :
        LET ks == EmittedKinds(p, i)
        IN  /\ Lifecycle(ks)
            /\ (ks # <<>> /\ Last(ks) # "end") <=> i \in KeySet(touches[p])

\* an id went through Begin, Update, End at one provider
C2_Witness ==
    \E p \in Providers : \E i \in Ids :
        /\ EmittedKinds(p, i) = <<"begin", "update", "end">>
        /\ events = <<>>

\* C3: no frame is passed to process_frame more than once, over all update()
\* calls of all providers sharing the queue.
C3_AtMostOnce ==
    /\ NoDuplicates(fids(delivered))
    /\ \A k \in 1..Len(LEAP_QUEUE) :
           LEAP_QUEUE[k].fid \notin Range(fids(delivered))

\* both providers have taken frames from the shared queue
C3_Witness ==
    /\ Len(delivered) = 3
    /\ \E j, k \in 1..Len(delivered) : delivered[j].prov # delivered[k].prov

Increasing(s) == \A k \in 1..(Len(s) - 1) : s[k] < s[k + 1]

\* C4: frames are passed to process_frame in the order they were pushed,
\* within one update() call and across calls, under any interleaving.
C4_PushOrder == Increasing(fids(delivered))

\* one update() call has reconciled a frame queued before it started and a
\* frame pushed while it ran, after an earlier call reconciled another
C4_Witness ==
    /\ Len(delivered) = 3
    /\ Len(handled) = 2
    /\ Len(startq) = 1

\* the events dispatched for frame n, as process_frame's (kind, touch) pairs
DispatchedOf(n) ==
    LET es == SelectSeq(dispatched, LAMBDA e : e.fid = n)
    IN  [k \in 1..Len(es) |-> Event(es[k].kind, es[k].touch)]

\* frame n has been reconciled and every event of it dispatched
Reconciled(n) ==
    \E k \in 1..Len(delivered) :
        delivered[k].fid = n /\ DispatchedOf(n) = delivered[k].events

\* every pushed frame is queued, popped and about to be reconciled, or
\* reconciled
Accounted ==
    Range(fids(LEAP_QUEUE)) \cup Range(fids(delivered))
        \cup (IF pc = "process" THEN {frame.fid} ELSE {})
    = 1..pushed

IsPrefix(s, t) == Len(s) <= Len(t) /\ s = SubSeq(t, 1, Len(s))

Contiguous(s) == \A k \in 1..(Len(s) - 1) : s[k + 1] = s[k] + 1

C7_PushNeverBlocks ==
    /\ [](\A hands \in HandLists(Ids, Positions) : ENABLED on_frame(hands))
    /\ [][pushed' # pushed =>
             /\ \E hands \in HandLists(Ids, Positions) :
                    LEAP_QUEUE' = Append(LEAP_QUEUE,
                                         [fid |-> pushed', hands |-> hands])
             /\ UNCHANGED <<touches, pc, self, frame, events>>]_vars

\* a frame pushed during a running update() waits behind another one while
\* the call is dispatching
C7_Witness ==
    /\ pc = "dispatch"
    /\ events # <<>>
    /\ Len(LEAP_QUEUE) = 2
    /\ Last(LEAP_QUEUE).fid \notin Range(startq)

\* the events process_frame returned for the frames in d, in order
RECURSIVE Emitted(_)
Emitted(d) ==
    IF d = <<>>
    THEN <<>>
    ELSE LET l == Last(d)
         IN  Emitted(SubSeq(d, 1, Len(d) - 1))
                 \o [k \in 1..Len(l.events) |->
                        [kind |-> l.events[k].kind, touch |-> l.events[k].touch,
                         fid |-> l.fid, prov |-> l.prov]]

\* C8: events are dispatched frame by frame in the order the frames were
\* pushed: every event of an earlier frame is dispatched before every event
\* of a later frame, each frame's events in the order process_frame returned.
C8_CrossFrameOrder ==
    /\ IsPrefix(dispatched, Emitted(delivered))
    /\ Len(dispatched) + Len(events) = Len(Emitted(delivered))
    /\ \A j, k \in 1..Len(dispatched) :
           j < k => dispatched[j].fid <= dispatched[k].fid

\* two frames both reporting id 2 were queued before one update() call,
\* which dispatched Begin(2) then Update(2)
C8_Witness ==
    /\ pc = "idle"
    /\ startq = <<1, 2>>
    /\ handled = <<1, 2>>
    /\ Len(dispatched) = 2
    /\ dispatched[1].kind = "begin" /\ dispatched[1].touch.id = 2
    /\ dispatched[2].kind = "update" /\ dispatched[2].touch.id = 2
    /\ dispatched[1].fid = 1 /\ dispatched[2].fid = 2

\* C9: while the queue is empty and no frame is in hand, update() changes
\* nothing: a call that finds the queue empty returns normally, dispatches no
\* event and leaves every touches mapping as it is, so active sessions stay
\* and no End is made up, however often update() is called.
C9_EmptyPollNoOp ==
    [][(LEAP_QUEUE = <<>> /\ pc \in {"idle", "loop"} /\ pushed' = pushed) =>
          /\ touches' = touches
          /\ dispatched' = dispatched
          /\ delivered' = delivered
          /\ pc = "loop" => pc' = "idle"
          /\ pc = "idle" => pc' = "loop"]_vars

\* an update() call that popped nothing has returned while a session is active
C9_Witness ==
    /\ pc = "idle"
    /\ handled = <<>>
    /\ LEAP_QUEUE = <<>>
    /\ touches[self] # <<>>

\* the hand with id i in the frame with number n
HandOf(n, i) ==
    LET d == CHOOSE d \in Range(delivered) : d.fid = n
    IN  CHOOSE h \in Range(d.hands) : h.id = i

HandsOf(n) == (CHOOSE d \in Range(delivered) : d.fid = n).hands

\* C11: a Begin event is dispatched for a hand only from a frame in which
\* that hand is pinching, and an End event only from a frame in which the
\* hand is still tracked with its fingers separated.
C11_PinchDriven ==
    \A k \in 1..Len(dispatched) :
        LET e == dispatched[k]
            hs == Range(HandsOf(e.fid))
        IN  /\ e.kind = "begin" =>
                   \E h \in hs : h.id = e.touch.id /\ h.pinch
            /\ e.kind = "end" =>
                   \E h \in hs : h.id = e.touch.id /\ ~h.pinch

\* C12: the events of one frame are one Begin or Update per reported hand,
\* in the order the frame lists the hands, followed by the End events; no End
\* comes before a Begin or Update of the same frame.
C12_BeginUpdateThenEnd ==
    \A m \in 1..Len(delivered) :
        LET d == delivered[m]
            n == Len(d.hands)
        IN  /\ Len(d.events) >= n
            /\ \A k \in 1..n :
                   /\ d.events[k].kind \in {"begin", "update"}
                   /\ d.events[k].touch.id = d.hands[k].id
            /\ \A k \in (n + 1)..Len(d.events) : d.events[k].kind = "end"

\* a frame listing hand 2 then hand 1 gave Update(2), Begin(1); a frame with
\* one hand while the other id was active gave a Begin or Update, then an End
C12_Witness ==
    /\ \E m \in 1..Len(delivered) :
           /\ uids(delivered[m].hands) = <<2, 1>>
           /\ delivered[m].events[1].kind = "update"
           /\ delivered[m].events[2].kind = "begin"
    /\ \E m \in 1..Len(delivered) :
           /\ Len(delivered[m].hands) = 1
           /\ Len(delivered[m].events) = 2
           /\ delivered[m].events[2].kind = "end"

\* the End events among the events of a frame
EndsOf(d) == SelectSeq(d.events, LAMBDA e : e.kind = "end")

\* C13 as stated: the End events of one frame are in ascending order of id.
C13_AscendingEnds ==
    \A m \in 1..Len(delivered) :
        LET es == EndsOf(delivered[m])
        IN  \A j, k \in 1..Len(es) : j < k => es[j].touch.id < es[k].touch.id

\* where, among the events of the frames before the m-th, provider p last
\* emitted a Begin for id i (0 when it never did)
BeginPos(p, i, m) ==
    LET log == Emitted(SubSeq(delivered, 1, m - 1))
        at == {k \in 1..Len(log) :
                  /\ log[k].prov = p /\ log[k].kind = "begin"
                  /\ log[k].touch.id = i}
    IN  IF at = {} THEN 0 ELSE CHOOSE k \in at : \A l \in at : l <= k

\* C13 amended: the End events of one frame, one for each vanished id, are
\* in the order in which those sessions began (the order of the touches
\* dict), whatever the id values.
C13_EndsInBeginOrder ==
    \A m \in 1..Len(delivered) :
        LET d == delivered[m]
            es == EndsOf(d)
        IN  \A j, k \in 1..Len(es) :
                j < k =>
                    /\ BeginPos(d.prov, es[j].touch.id, m) > 0
                    /\ BeginPos(d.prov, es[j].touch.id, m)
                           < BeginPos(d.prov, es[k].touch.id, m)

\* ids 2 and 1 began in that order and a later frame ended both: End(2), End(1)
C13_Witness ==
    \E m \in 1..Len(delivered) :
        LET es == EndsOf(delivered[m])
        IN  /\ Len(es) = 2
            /\ es[1].touch.id = 2
            /\ es[2].touch.id = 1

Begins(p) ==
    Len(SelectSeq(Emitted(delivered),
                  LAMBDA e : e.prov = p /\ e.kind = "begin"))

\* C15 as stated: the provider's counter advances on each Begin, so it is at
\* least the number of sessions created.
C15_CounterAdvances == \A p \in Providers : self_uid[p] >= Begins(p)

\* C15 amended: the provider's counter is the 0 that start() stored, through
\* every Begin; it never decreases and never advances.
C15_CounterStaysZero == \A p \in Providers : self_uid[p] = 0

\* a provider has created three sessions
C15_Witness == \E p \in Providers : Begins(p) = 3 /\ self_uid[p] = 0

\* C16: whenever dispatch_fn is about to receive an event of frame F, the
\* provider's mapping already holds exactly the ids reported in F: the
\* session of an End event is no longer in the mapping, the session of a
\* Begin or Update event is the object the mapping holds.
C16_ReconciledBeforeDispatch ==
    pc = "dispatch" =>
        /\ KeySet(touches[self]) = Range(uids(frame.hands))
        /\ \A k \in 1..Len(events) :
               /\ events[k].kind = "end" =>
                      events[k].touch.id \notin KeySet(touches[self])
               /\ events[k].kind \in {"begin", "update"} =>
                      events[k].touch \in Range(touches[self])

\* a Begin of the frame is dispatched and an End of the same frame is next
C16_Witness ==
    /\ pc = "dispatch"
    /\ Len(events) = 1
    /\ events[1].kind = "end"
    /\ dispatched # <<>>
    /\ Last(dispatched).fid = frame.fid
    /\ Last(dispatched).kind = "begin"

\* C17: when process_frame or dispatch_fn raises IndexError, update()
\* returns normally as if the queue were empty: the events of the frame not
\* yet dispatched are dropped, the frames still queued stay queued in order,
\* and nothing is dispatched until the next update() call.
C17_IndexErrorSwallowed ==
    /\ [][(exc = "none" /\ exc' = "IndexError") =>
             /\ pc' = "idle"
             /\ events' = <<>>
             /\ dispatched' = dispatched
             /\ LEAP_QUEUE' = LEAP_QUEUE]_vars
    /\ [][dispatched' # dispatched => (exc = "none" /\ exc' = "none")]_vars
    /\ [](exc = "IndexError" => (pc = "idle" /\ events = <<>>))

\* dispatch_fn raised IndexError on the second of two events while another
\* frame was queued: update() returned, one event was dispatched
C17_Witness ==
    /\ exc = "IndexError"
    /\ pc = "idle"
    /\ LEAP_QUEUE # <<>>
    /\ Last(delivered).fid = frame.fid
    /\ Len(Last(delivered).events) = 2
    /\ Len(DispatchedOf(frame.fid)) = 1

\* C18: when process_frame or dispatch_fn raises another exception while
\* update() handles frame F, the exception leaves update(); F is out of the
\* queue and is neither queued nor reconciled again, the mapping keeps what
\* was changed for F, and the queued frames stay queued in push order.
C18_OtherErrorPropagates ==
    /\ [][(exc = "none" /\ exc' = "Other") =>
             /\ pc' = "raised"
             /\ LEAP_QUEUE' = LEAP_QUEUE
             /\ frame' = frame
             /\ pc = "dispatch" =>
                    (/\ touches' = touches
                     /\ KeySet(touches[self]) = Range(uids(frame.hands)))
             /\ pc = "process" =>
                    \E k \in 0..(Len(frame.hands) - 1) :
                        keys(touches'[self]) =
                            keys(touches[self]) \o
                                SelectSeq(SubSeq(uids(frame.hands), 1, k),
                                          LAMBDA i : i \notin KeySet(touches[self]))]_vars
    /\ [](/\ NoDuplicates(fids(delivered))
          /\ Increasing(fids(LEAP_QUEUE))
          /\ \A k \in 1..Len(LEAP_QUEUE) :
                 /\ LEAP_QUEUE[k].fid \notin Range(fids(delivered))
                 /\ pc \in {"process", "dispatch", "raised"} =>
                        LEAP_QUEUE[k].fid > frame.fid)

\* process_frame raised after it had begun hand 1 of a frame listing hands 1
\* and 2: the exception is out, the mapping keeps id 1, a frame is queued
C18_Witness ==
    /\ exc = "Other"
    /\ pc = "raised"
    /\ uids(frame.hands) = <<1, 2>>
    /\ keys(touches[self]) = <<1>>
    /\ Last(delivered).fid = frame.fid
    /\ Last(delivered).events = <<>>
    /\ LEAP_QUEUE # <<>>

\* C19: with finitely many pushes a running update() call returns; each
\* iteration takes exactly the head frame off the queue, and the call
\* returns at the first popleft that finds the queue empty and nowhere else,
\* the queue being empty at that moment.
C19_UpdateTerminates ==
    /\ (pc # "idle") ~> (pc = "idle")
    /\ [][(pc = "loop" /\ pc' = "process") =>
             /\ LEAP_QUEUE # <<>>
             /\ frame' = Head(LEAP_QUEUE)
             /\ LEAP_QUEUE' = Tail(LEAP_QUEUE)]_vars
    /\ [][(pc # "idle" /\ pc' = "idle") =>
             /\ pc = "loop"
             /\ LEAP_QUEUE = <<>>
             /\ LEAP_QUEUE' = <<>>]_vars
    /\ [][(pc = "loop" /\ LEAP_QUEUE = <<>> /\ pc' # pc) => pc' = "idle"]_vars

\* a call that handled three frames, not all queued at its start, has returned
C19_Witness ==
    /\ pc = "idle"
    /\ Len(handled) = 3
    /\ Len(startq) = 1
    /\ LEAP_QUEUE = <<>>

=============================================================================
